---- MODULE Spec2Model ----
(***************************************************************************)
(* A model of the Lox tree-walking interpreter core: the runtime object    *)
(* model (lox/runtime.py), the evaluator and the semantic analyser         *)
(* (lox/ast.py).  The evaluator is a recursive walk, modelled by recursive *)
(* operators that thread the interpreter state (environments, objects,     *)
(* printed output) and return a result record with the raised signal.      *)
(***************************************************************************)
EXTENDS Integers, Sequences, FiniteSets, TLC

VARIABLES prog, phase, pc, st, err

vars == <<prog, phase, pc, st, err>>

RECURSIVE CtxFind(_, _, _)
RECURSIVE get_method(_, _, _)
RECURSIVE Eval(_, _, _)
RECURSIVE EvalArgs(_, _, _, _, _)
RECURSIVE EvalStmts(_, _, _, _)
RECURSIVE While_loop(_, _, _)
RECURSIVE CallValue(_, _, _)
RECURSIVE PyEq(_, _, _)
RECURSIVE ContainsVar(_, _)
RECURSIVE AnyContainsVar(_, _, _)
RECURSIVE Validate(_, _)
RECURSIVE ValidateAll(_, _, _)

(***************************************************************************)
(* Values.  A Python float is a number, None is nil; closures, classes and *)
(* instances are references into the object store.                         *)
(***************************************************************************)
Nil == [t |-> "nil"]
Bool(b) == [t |-> "bool", b |-> b]
Num(n) == [t |-> "num", n |-> n]
Str(s) == [t |-> "str", s |-> s]
FnRef(i) == [t |-> "fn", id |-> i]
ClassRef(i) == [t |-> "class", id |-> i]
InstRef(i) == [t |-> "inst", id |-> i]
\* getattr(instance, "init") finds the Python method LoxInstance.init
PyInitRef(i) == [t |-> "pyinit", id |-> i]

EmptyMap == <<>>

(***************************************************************************)
(* AST nodes (the dataclasses of lox/ast.py).  An absent optional child    *)
(* (Python None) is NoneNode; an absent superclass name is "".             *)
(***************************************************************************)
NoneNode == [k |-> "None"]
Program(stmts) == [k |-> "Program", stmts |-> stmts]
BinOp(left, right, op) == [k |-> "BinOp", left |-> left, right |-> right, op |-> op]
Var(name) == [k |-> "Var", name |-> name]
Literal(value) == [k |-> "Literal", value |-> value]
ExprStmt(expr) == [k |-> "ExprStmt", expr |-> expr]
And(left, right) == [k |-> "And", left |-> left, right |-> right]
Or(left, right) == [k |-> "Or", left |-> left, right |-> right]
UnaryOp(operand, op) == [k |-> "UnaryOp", operand |-> operand, op |-> op]
Call(callee, params) == [k |-> "Call", callee |-> callee, params |-> params]
This == [k |-> "This"]
Super(method) == [k |-> "Super", method |-> method]
Assign(name, value) == [k |-> "Assign", name |-> name, value |-> value]
Getattr(obj, name) == [k |-> "Getattr", obj |-> obj, name |-> name]
Setattr(obj, name, value) == [k |-> "Setattr", obj |-> obj, name |-> name, value |-> value]
PrintStmt(expr) == [k |-> "Print", expr |-> expr]
Return(value) == [k |-> "Return", value |-> value]
VarDef(name, initializer) == [k |-> "VarDef", name |-> name, initializer |-> initializer]
If(condition, then_branch, else_branch) ==
    [k |-> "If", condition |-> condition, then_branch |-> then_branch,
     else_branch |-> else_branch]
While(condition, body) == [k |-> "While", condition |-> condition, body |-> body]
Block(stmts) == [k |-> "Block", stmts |-> stmts]
Function(name, params, body) ==
    [k |-> "Function", name |-> name, params |-> params, body |-> body]
Method(name, params, body) ==
    [k |-> "Method", name |-> name, params |-> params, body |-> body]
Class(name, methods, superclass) ==
    [k |-> "Class", name |-> name, methods |-> methods, superclass |-> superclass]

RESERVED_WORDS ==
    {"and", "class", "else", "false", "for", "fun", "if", "nil",
     "or", "print", "return", "this", "true", "var", "while"}

(***************************************************************************)
(* Evaluation results: the interpreter state after the evaluation, the     *)
(* value, and the Python exception that left the evaluation ("ok": none).  *)
(***************************************************************************)
Ok(s, v) == [st |-> s, v |-> v, sig |-> "ok", msg |-> ""]
Raise(s, sig, msg) == [st |-> s, v |-> Nil, sig |-> sig, msg |-> msg]
LoxReturn(s, v) == [st |-> s, v |-> v, sig |-> "LoxReturn", msg |-> ""]

(***************************************************************************)
(* Interpreter state: envs (the scope chain records), objs (the object     *)
(* store: closures, classes, instances), out (the printed lines).          *)
(***************************************************************************)
InitState ==
    [envs |-> << [vars |-> EmptyMap, parent |-> 0] >>,
     objs |-> << >>,
     out |-> << >>]

RootCtx == 1

\* Ctx.push(extra): a new child environment holding extra
CtxPush(s, ctx, extra) ==
    [s EXCEPT !.envs = Append(@, [vars |-> extra, parent |-> ctx])]

NewCtx(s) == Len(s.envs) + 1

\* the innermost environment of the chain from ctx that defines name (0: none)
CtxFind(s, ctx, name) ==
    IF ctx = 0 THEN 0
    ELSE IF name \in DOMAIN s.envs[ctx].vars THEN ctx
    ELSE CtxFind(s, s.envs[ctx].parent, name)

\* Ctx.__getitem__ (the caller has checked that the name is bound)
CtxGet(s, ctx, name) == s.envs[CtxFind(s, ctx, name)].vars[name]

\* Ctx.var_def(name, value): a binding in the innermost environment
CtxVarDef(s, ctx, name, value) ==
    [s EXCEPT !.envs[ctx].vars = (name :> value) @@ @]

\* Ctx.assign(name, value): mutates the nearest existing binding
CtxAssign(s, ctx, name, value) ==
    [s EXCEPT !.envs[CtxFind(s, ctx, name)].vars = (name :> value) @@ @]

NewObj(s) == Len(s.objs) + 1

Alloc(s, obj) == [s EXCEPT !.objs = Append(@, obj)]

(***************************************************************************)
(* Runtime object model (lox/runtime.py).  Objects of the store:           *)
(*   [k |-> "class", name, methods (name -> closure id), base (0: None)]   *)
(*   [k |-> "fn", name, params, body, ctx]                                 *)
(*   [k |-> "inst", dict]   the instance's __dict__, which holds the       *)
(*                          dataclass field klass and every Lox field      *)
(***************************************************************************)
LoxClassObj(name, methods, base) ==
    [k |-> "class", name |-> name, methods |-> methods, base |-> base]

LoxFunctionObj(name, params, body, ctx) ==
    [k |-> "fn", name |-> name, params |-> params, body |-> body, ctx |-> ctx]

LoxInstanceObj(klass) == [k |-> "inst", dict |-> ("klass" :> ClassRef(klass))]

\* LoxClass.get_method: the closure id of the method, 0 when LoxError is raised
get_method(s, cls, name) ==
    IF name \in DOMAIN s.objs[cls].methods THEN s.objs[cls].methods[name]
    ELSE IF s.objs[cls].base # 0 THEN get_method(s, s.objs[cls].base, name)
    ELSE 0

\* LoxFunction.bind: a new closure (id NewObj(s)) over a child environment
\* that defines this
bind(s, fn, obj) ==
    LET f == s.objs[fn]
        s1 == CtxPush(s, f.ctx, ("this" :> obj))
    IN  Alloc(s1, LoxFunctionObj(f.name, f.params, f.body, NewCtx(s)))

\* dict(zip(params, args)): of a repeated name the last pair wins
ZipEnv(params, args) ==
    [n \in {params[i] : i \in 1..Len(params)} |->
        args[CHOOSE i \in 1..Len(params) :
                /\ params[i] = n
                /\ \A j \in 1..Len(params) : params[j] = n => j <= i]]

\* LoxFunction.call without the except LoxReturn clause
LoxFunction_call_leaks_return(s, fn, args) ==
    LET f == s.objs[fn] IN
    IF Len(args) # Len(f.params)
    THEN Raise(s, "TypeError", "esperava n argumentos")
    ELSE LET call_ctx == NewCtx(s)
             s1 == CtxPush(s, f.ctx, ZipEnv(f.params, args))
             r == Eval(f.body, call_ctx, s1)
         IN  IF r.sig = "ok" THEN Ok(r.st, Nil) ELSE r

\* LoxFunction.call
LoxFunction_call(s, fn, args) ==
    LET f == s.objs[fn] IN
    IF Len(args) # Len(f.params)
    THEN Raise(s, "TypeError", "esperava n argumentos")
    ELSE LET call_ctx == NewCtx(s)
             s1 == CtxPush(s, f.ctx, ZipEnv(f.params, args))
             r == Eval(f.body, call_ctx, s1)
         IN  IF r.sig = "LoxReturn" THEN Ok(r.st, r.v)
             ELSE IF r.sig = "ok" THEN Ok(r.st, Nil)
             ELSE r

\* the except clause without the check of the arguments
LoxClass_call_except_any_args(s, inst, args) == Ok(s, InstRef(inst))

\* the except LoxError clause of LoxClass.__call__
LoxClass_call_except(s, inst, args) ==
    IF Len(args) > 0
    THEN Raise(s, "TypeError", "Expected 0 arguments")
    ELSE Ok(s, InstRef(inst))

\* LoxClass.__call__ returning what init returned
LoxClass_call_returns_init_value(s, cls, args) ==
    LET inst == NewObj(s)
        s1 == Alloc(s, LoxInstanceObj(cls))
        init_method == get_method(s1, cls, "init")
    IN  IF init_method = 0 THEN LoxClass_call_except(s1, inst, args)
        ELSE LET bound_init == NewObj(s1)
                 s2 == bind(s1, init_method, InstRef(inst))
                 r == LoxFunction_call(s2, bound_init, args)
             IN  IF r.sig = "LoxError" THEN LoxClass_call_except(r.st, inst, args)
                 ELSE r

\* LoxClass.__call__
LoxClass_call(s, cls, args) ==
    LET inst == NewObj(s)
        s1 == Alloc(s, LoxInstanceObj(cls))
        init_method == get_method(s1, cls, "init")
    IN  IF init_method = 0 THEN LoxClass_call_except(s1, inst, args)
        ELSE LET bound_init == NewObj(s1)
                 s2 == bind(s1, init_method, InstRef(inst))
                 r == LoxFunction_call(s2, bound_init, args)
             IN  IF r.sig = "LoxError" THEN LoxClass_call_except(r.st, inst, args)
                 ELSE IF r.sig = "ok" THEN Ok(r.st, InstRef(inst))
                 ELSE r

\* LoxInstance.init, the Python method found by getattr(instance, "init")
LoxInstance_init(s, inst, args) ==
    LET klass == s.objs[inst].dict["klass"] IN
    IF klass.t # "class" THEN Raise(s, "AttributeError", "get_method")
    ELSE LET init_method == get_method(s, klass.id, "init") IN
         IF init_method = 0
         THEN Raise(s, "AttributeError", "object has no method 'init'")
         ELSE LET bound_init == NewObj(s)
                  s1 == bind(s, init_method, InstRef(inst))
                  r == LoxFunction_call(s1, bound_init, args)
              IN  IF r.sig = "LoxError"
                  THEN Raise(r.st, "AttributeError", "object has no method 'init'")
                  ELSE IF r.sig = "ok" THEN Ok(r.st, InstRef(inst))
                  ELSE r

\* callable(func) and func(*args) of Call.eval
CallValue(s, func, args) ==
    CASE func.t = "fn" -> LoxFunction_call(s, func.id, args)
      [] func.t = "class" -> LoxClass_call(s, func.id, args)
      [] func.t = "pyinit" -> LoxInstance_init(s, func.id, args)
      [] OTHER -> Raise(s, "TypeError", "nao e uma funcao")

\* truthy
truthy(value) == ~(value = Nil \/ value = Bool(FALSE))

\* a == b for two values of the same Python type.  The dataclass __eq__ of
\* LoxInstance compares the declared field klass only, that of LoxClass
\* compares (name, methods, base); LoxFunction.__eq__ is identity.
PyEq(s, a, b) ==
    IF a.t # b.t THEN FALSE
    ELSE CASE a.t = "inst" ->
                 PyEq(s, s.objs[a.id].dict["klass"], s.objs[b.id].dict["klass"])
           [] a.t = "class" ->
                 \/ a.id = b.id
                 \/ /\ s.objs[a.id].name = s.objs[b.id].name
                    /\ s.objs[a.id].methods = s.objs[b.id].methods
                    /\ (s.objs[a.id].base = 0) = (s.objs[b.id].base = 0)
                    /\ s.objs[a.id].base # 0 =>
                          PyEq(s, ClassRef(s.objs[a.id].base),
                               ClassRef(s.objs[b.id].base))
           [] OTHER -> a = b

eq(s, a, b) == IF a.t # b.t THEN FALSE ELSE PyEq(s, a, b)

\* the binary operators: [v, sig]
ArithResult(op, a, b) ==
    CASE op = "sub" -> Num(a - b)
      [] op = "mul" -> Num(a * b)
      [] op = "lt" -> Bool(a < b)
      [] op = "le" -> Bool(a <= b)
      [] op = "gt" -> Bool(a > b)
      [] op = "ge" -> Bool(a >= b)

ApplyBinOp(s, op, a, b) ==
    CASE op = "add" ->
            IF a.t = "num" /\ b.t = "num" THEN Ok(s, Num(a.n + b.n))
            ELSE IF a.t = "str" /\ b.t = "str" THEN Ok(s, Str(a.s \o b.s))
            ELSE Raise(s, "LoxError", "Operands must be two numbers or two strings.")
      [] op = "eq" -> Ok(s, Bool(eq(s, a, b)))
      [] op = "ne" -> Ok(s, Bool(~eq(s, a, b)))
      [] OTHER ->
            \* _check_numbers
            IF a.t = "num" /\ b.t = "num" THEN Ok(s, ArithResult(op, a.n, b.n))
            ELSE Raise(s, "LoxError", "Operands must be numbers.")

ApplyUnaryOp(s, op, a) ==
    IF op = "not_" THEN Ok(s, Bool(~truthy(a)))
    ELSE IF a.t = "num" THEN Ok(s, Num(0 - a.n))
    ELSE Raise(s, "LoxError", "Operand must be a number.")

\* whether show raises: str() of an instance reads klass.name, and a write to
\* the field klass may have put a value without a name there
show_raises(s, value) ==
    value.t = "inst" /\ s.objs[value.id].dict["klass"].t \notin {"class", "fn"}

\* show: the display text of a value (a number is an integral float here)
show(s, value) ==
    CASE value.t = "nil" -> "nil"
      [] value.t = "bool" -> IF value.b THEN "true" ELSE "false"
      [] value.t = "num" -> ToString(value.n)
      [] value.t = "str" -> value.s
      [] value.t = "fn" ->
            IF s.objs[value.id].name # ""
            THEN "<fn " \o s.objs[value.id].name \o ">" ELSE "<fn>"
      [] value.t = "class" -> s.objs[value.id].name
      [] value.t = "inst" ->
            s.objs[s.objs[value.id].dict["klass"].id].name \o " instance"
      [] OTHER -> "<bound method LoxInstance.init>"

(***************************************************************************)
(* Evaluator (the eval methods of lox/ast.py).  Each returns the result of *)
(* evaluating node in environment ctx from interpreter state s.            *)
(***************************************************************************)
Literal_eval(node, ctx, s) == Ok(s, node.value)

Var_eval(node, ctx, s) ==
    IF CtxFind(s, ctx, node.name) = 0
    THEN Raise(s, "NameError", "variavel nao existe")
    ELSE Ok(s, CtxGet(s, ctx, node.name))

BinOp_eval(node, ctx, s) ==
    LET l == Eval(node.left, ctx, s) IN
    IF l.sig # "ok" THEN l
    ELSE LET r == Eval(node.right, ctx, l.st) IN
         IF r.sig # "ok" THEN r
         ELSE ApplyBinOp(r.st, node.op, l.v, r.v)

And_eval(node, ctx, s) ==
    LET l == Eval(node.left, ctx, s) IN
    IF l.sig # "ok" THEN l
    ELSE IF l.v = Bool(FALSE) \/ l.v = Nil THEN l
    ELSE Eval(node.right, ctx, l.st)

\* Or.eval with Python truthiness of the left operand (0 and "" falsy)
Or_eval_python_truthiness(node, ctx, s) ==
    LET l == Eval(node.left, ctx, s) IN
    IF l.sig # "ok" THEN l
    ELSE IF l.v \notin {Bool(FALSE), Nil, Num(0), Str("")} THEN l
    ELSE Eval(node.right, ctx, l.st)

Or_eval(node, ctx, s) ==
    LET l == Eval(node.left, ctx, s) IN
    IF l.sig # "ok" THEN l
    ELSE IF l.v # Bool(FALSE) /\ l.v # Nil
         THEN IF l.v.t = "num" /\ l.v = Num(0) THEN l
              ELSE IF l.v.t = "str" /\ l.v = Str("") THEN l
              ELSE l
    ELSE Eval(node.right, ctx, l.st)

UnaryOp_eval(node, ctx, s) ==
    LET r == Eval(node.operand, ctx, s) IN
    IF r.sig # "ok" THEN r ELSE ApplyUnaryOp(r.st, node.op, r.v)

\* the argument list of a call, left to right, skipping absent parameters
EvalArgs(params, i, ctx, s, acc) ==
    IF i > Len(params) THEN Ok(s, acc)
    ELSE IF params[i] = NoneNode THEN EvalArgs(params, i + 1, ctx, s, acc)
    ELSE LET r == Eval(params[i], ctx, s) IN
         IF r.sig # "ok" THEN r
         ELSE EvalArgs(params, i + 1, ctx, r.st, Append(acc, r.v))

Call_eval(node, ctx, s) ==
    LET func == Eval(node.callee, ctx, s) IN
    IF func.sig # "ok" THEN func
    ELSE LET args == EvalArgs(node.params, 1, ctx, func.st, << >>) IN
         IF args.sig # "ok" THEN args
         ELSE CallValue(args.st, func.v, args.v)

This_eval(node, ctx, s) ==
    IF CtxFind(s, ctx, "this") = 0
    THEN Raise(s, "NameError", "variavel this nao existe")
    ELSE Ok(s, CtxGet(s, ctx, "this"))

\* Super.eval looking the method up from the base of the receiver's class
Super_eval_from_receiver_class(node, ctx, s) ==
    LET this == CtxGet(s, ctx, "this")
        base == s.objs[s.objs[this.id].dict["klass"].id].base
        method == get_method(s, base, node.method)
    IN  IF method = 0 THEN Raise(s, "LoxError", "Undefined property")
        ELSE Ok(bind(s, method, this), FnRef(NewObj(s)))

Super_eval(node, ctx, s) ==
    IF CtxFind(s, ctx, "super") = 0 THEN Raise(s, "KeyError", "super")
    ELSE IF CtxFind(s, ctx, "this") = 0 THEN Raise(s, "KeyError", "this")
    ELSE LET super_class == CtxGet(s, ctx, "super")
             this == CtxGet(s, ctx, "this")
         IN  IF super_class.t # "class"
             THEN Raise(s, "AttributeError", "get_method")
             ELSE LET method == get_method(s, super_class.id, node.method) IN
                  IF method = 0
                  THEN Raise(s, "LoxError", "Undefined property")
                  ELSE Ok(bind(s, method, this), FnRef(NewObj(s)))

Assign_eval(node, ctx, s) ==
    LET result == Eval(node.value, ctx, s) IN
    IF result.sig # "ok" THEN result
    ELSE IF CtxFind(result.st, ctx, node.name) = 0
         THEN Raise(result.st, "UndefinedVariable", node.name)
         ELSE Ok(CtxAssign(result.st, ctx, node.name, result.v), result.v)

\* getattr(obj_value, name) on an instance: the instance __dict__, then the
\* attributes of the Python class LoxInstance (of which a Lox program can
\* name init), then LoxInstance.__getattr__
LoxInstance_getattr(s, inst, name) ==
    LET d == s.objs[inst].dict IN
    IF name \in DOMAIN d THEN Ok(s, d[name])
    ELSE IF name = "init" THEN Ok(s, PyInitRef(inst))
    ELSE IF d["klass"].t # "class" THEN Raise(s, "AttributeError", "get_method")
    ELSE LET method == get_method(s, d["klass"].id, name) IN
         IF method = 0 THEN Raise(s, "AttributeError", "object has no attribute")
         ELSE Ok(bind(s, method, InstRef(inst)), FnRef(NewObj(s)))

\* Getattr.eval; on a value that is no instance the name is taken not to be
\* an attribute of the Python object, so getattr raises AttributeError
Getattr_eval(node, ctx, s) ==
    LET obj_value == Eval(node.obj, ctx, s) IN
    IF obj_value.sig # "ok" THEN obj_value
    ELSE IF obj_value.v.t = "inst"
         THEN LoxInstance_getattr(obj_value.st, obj_value.v.id, node.name)
         ELSE Raise(obj_value.st, "AttributeError", "nao possui o atributo")

\* variant: a write on a class or closure is silently ignored
Setattr_eval_ignores_non_instance(node, ctx, s) ==
    LET obj_val == Eval(node.obj, ctx, s) IN
    IF obj_val.sig # "ok" THEN obj_val
    ELSE LET val == Eval(node.value, ctx, obj_val.st) IN
         IF val.sig # "ok" THEN val
         ELSE IF obj_val.v.t = "inst"
              THEN Ok([val.st EXCEPT !.objs[obj_val.v.id].dict =
                           (node.name :> val.v) @@ @], val.v)
              ELSE Ok(val.st, val.v)

Setattr_eval(node, ctx, s) ==
    LET obj_val == Eval(node.obj, ctx, s) IN
    IF obj_val.sig # "ok" THEN obj_val
    ELSE LET val == Eval(node.value, ctx, obj_val.st) IN
         IF val.sig # "ok" THEN val
         ELSE IF obj_val.v.t \in {"class", "fn"}
              THEN Raise(val.st, "LoxError", "Apenas instancias podem ter campos.")
              ELSE IF obj_val.v.t = "inst"
                   THEN Ok([val.st EXCEPT !.objs[obj_val.v.id].dict =
                                (node.name :> val.v) @@ @], val.v)
                   ELSE Raise(val.st, "AttributeError", "setattr")

ExprStmt_eval(node, ctx, s) ==
    LET r == Eval(node.expr, ctx, s) IN
    IF r.sig # "ok" THEN r ELSE Ok(r.st, Nil)

Print_eval(node, ctx, s) ==
    LET value == Eval(node.expr, ctx, s) IN
    IF value.sig # "ok" THEN value
    ELSE IF show_raises(value.st, value.v)
         THEN Raise(value.st, "AttributeError", "name")
         ELSE Ok([value.st EXCEPT !.out = Append(@, show(value.st, value.v))], Nil)

Return_eval(node, ctx, s) ==
    IF node.value = NoneNode THEN LoxReturn(s, Nil)
    ELSE LET return_value == Eval(node.value, ctx, s) IN
         IF return_value.sig # "ok" THEN return_value
         ELSE LoxReturn(return_value.st, return_value.v)

VarDef_eval(node, ctx, s) ==
    LET value == Eval(node.initializer, ctx, s) IN
    IF value.sig # "ok" THEN value
    ELSE Ok(CtxVarDef(value.st, ctx, node.name, value.v), Nil)

If_eval(node, ctx, s) ==
    LET condition_val == Eval(node.condition, ctx, s) IN
    IF condition_val.sig # "ok" THEN condition_val
    ELSE IF condition_val.v # Bool(FALSE) /\ condition_val.v # Nil
         THEN Eval(node.then_branch, ctx, condition_val.st)
         ELSE Eval(node.else_branch, ctx, condition_val.st)

\* While.eval
While_loop(node, ctx, s) ==
    LET condition_val == Eval(node.condition, ctx, s) IN
    IF condition_val.sig # "ok" THEN condition_val
    ELSE IF condition_val.v = Bool(FALSE) \/ condition_val.v = Nil
         THEN Ok(condition_val.st, Nil)
         ELSE LET b == Eval(node.body, ctx, condition_val.st) IN
              IF b.sig # "ok" THEN b ELSE While_loop(node, ctx, b.st)

\* for stmt in stmts: stmt.eval(ctx), from statement i on
EvalStmts(stmts, i, ctx, s) ==
    IF i > Len(stmts) THEN Ok(s, Nil)
    ELSE LET r == Eval(stmts[i], ctx, s) IN
         IF r.sig # "ok" THEN r ELSE EvalStmts(stmts, i + 1, ctx, r.st)

\* Block.eval running the statements in the enclosing environment
Block_eval_no_push(node, ctx, s) == EvalStmts(node.stmts, 1, ctx, s)

Block_eval(node, ctx, s) ==
    EvalStmts(node.stmts, 1, NewCtx(s), CtxPush(s, ctx, EmptyMap))

ParamNames(params) ==
    LET keep == SelectSeq(params, LAMBDA p : p # NoneNode)
    IN  [i \in 1..Len(keep) |-> keep[i].name]

Function_eval(node, ctx, s) ==
    LET function == NewObj(s)
        s1 == Alloc(s, LoxFunctionObj(node.name, ParamNames(node.params), node.body, ctx))
    IN  Ok(CtxVarDef(s1, ctx, node.name, FnRef(function)), Nil)

\* the methods dict of Class.eval: of a repeated name the last method wins;
\* the closure of method i of the declaration is object first + i - 1
MethodTable(methods, first) ==
    [n \in {methods[i].name : i \in 1..Len(methods)} |->
        first - 1 + CHOOSE i \in 1..Len(methods) :
                        /\ methods[i].name = n
                        /\ \A j \in 1..Len(methods) : methods[j].name = n => j <= i]

Class_eval(node, ctx, s) ==
    IF node.superclass # "" /\ CtxFind(s, ctx, node.superclass) = 0
    THEN Raise(s, "KeyError", node.superclass)
    ELSE IF node.superclass # "" /\ CtxGet(s, ctx, node.superclass).t # "class"
    THEN Raise(s, "RuntimeError", "Superclass must be a class.")
    ELSE LET superclass == IF node.superclass = "" THEN 0
                           ELSE CtxGet(s, ctx, node.superclass).id
             method_ctx == IF superclass = 0 THEN ctx ELSE NewCtx(s)
             s1 == IF superclass = 0 THEN s
                   ELSE CtxPush(s, ctx, ("super" :> ClassRef(superclass)))
             first == NewObj(s1)
             impls == [i \in 1..Len(node.methods) |->
                          LoxFunctionObj(node.methods[i].name,
                                         ParamNames(node.methods[i].params),
                                         node.methods[i].body, method_ctx)]
             s2 == [s1 EXCEPT !.objs = @ \o impls]
             lox_class == NewObj(s2)
             s3 == Alloc(s2, LoxClassObj(node.name,
                                         MethodTable(node.methods, first), superclass))
         IN  Ok(CtxVarDef(s3, ctx, node.name, ClassRef(lox_class)), Nil)

Eval(node, ctx, s) ==
    CASE node.k = "Literal" -> Literal_eval(node, ctx, s)
      [] node.k = "Var" -> Var_eval(node, ctx, s)
      [] node.k = "BinOp" -> BinOp_eval(node, ctx, s)
      [] node.k = "And" -> And_eval(node, ctx, s)
      [] node.k = "Or" -> Or_eval(node, ctx, s)
      [] node.k = "UnaryOp" -> UnaryOp_eval(node, ctx, s)
      [] node.k = "Call" -> Call_eval(node, ctx, s)
      [] node.k = "This" -> This_eval(node, ctx, s)
      [] node.k = "Super" -> Super_eval(node, ctx, s)
      [] node.k = "Assign" -> Assign_eval(node, ctx, s)
      [] node.k = "Getattr" -> Getattr_eval(node, ctx, s)
      [] node.k = "Setattr" -> Setattr_eval(node, ctx, s)
      [] node.k = "ExprStmt" -> ExprStmt_eval(node, ctx, s)
      [] node.k = "Print" -> Print_eval(node, ctx, s)
      [] node.k = "Return" -> Return_eval(node, ctx, s)
      [] node.k = "VarDef" -> VarDef_eval(node, ctx, s)
      [] node.k = "If" -> If_eval(node, ctx, s)
      [] node.k = "While" -> While_loop(node, ctx, s)
      [] node.k = "Block" -> Block_eval(node, ctx, s)
      [] node.k = "Function" -> Function_eval(node, ctx, s)
      [] node.k = "Method" -> Ok(s, Nil)
      [] node.k = "Class" -> Class_eval(node, ctx, s)

(***************************************************************************)
(* Semantic analyser (the validate_self methods of lox/ast.py).  The walk  *)
(* visits every node with the chain of its ancestors, nearest first, and   *)
(* stops at the first error.  A result is "" (valid) or the error message. *)
(***************************************************************************)
NotNone(nodes) == SelectSeq(nodes, LAMBDA n : n # NoneNode)

\* the child nodes of a node, in field order
Children(node) ==
    CASE node.k \in {"Program", "Block"} -> node.stmts
      [] node.k \in {"BinOp", "And", "Or"} -> <<node.left, node.right>>
      [] node.k = "ExprStmt" -> <<node.expr>>
      [] node.k = "Print" -> <<node.expr>>
      [] node.k = "UnaryOp" -> <<node.operand>>
      [] node.k = "Call" -> <<node.callee>> \o NotNone(node.params)
      [] node.k = "Assign" -> <<node.value>>
      [] node.k = "Getattr" -> <<node.obj>>
      [] node.k = "Setattr" -> <<node.obj, node.value>>
      [] node.k = "Return" -> NotNone(<<node.value>>)
      [] node.k = "VarDef" -> NotNone(<<node.initializer>>)
      [] node.k = "If" -> <<node.condition, node.then_branch, node.else_branch>>
      [] node.k = "While" -> <<node.condition, node.body>>
      [] node.k \in {"Function", "Method"} -> NotNone(node.params) \o <<node.body>>
      [] node.k = "Class" -> node.methods
      [] OTHER -> << >>

\* initializer.visit({Var: check_self_reference}): some Var node of the
\* subtree has the name
ContainsVar(node, name) ==
    \/ node.k = "Var" /\ node.name = name
    \/ AnyContainsVar(Children(node), 1, name)

AnyContainsVar(nodes, i, name) ==
    /\ i <= Len(nodes)
    /\ \/ ContainsVar(nodes[i], name)
       \/ AnyContainsVar(nodes, i + 1, name)

Var_validate_self(node, parents) ==
    IF node.name \in RESERVED_WORDS
    THEN "Nao e possivel usar a palavra reservada como nome de variavel."
    ELSE ""

This_validate_self(node, parents) ==
    IF \E i \in 1..Len(parents) : parents[i].k = "Class" THEN ""
    ELSE "Nao e possivel usar 'this' fora de uma classe."

Super_validate_self(node, parents) ==
    LET classes == {i \in 1..Len(parents) : parents[i].k = "Class"} IN
    IF classes = {} THEN "Nao e possivel usar 'super' fora de uma classe."
    ELSE LET i == CHOOSE c \in classes : \A d \in classes : c <= d IN
         IF parents[i].superclass # "" THEN ""
         ELSE "Nao e possivel usar 'super' em uma classe sem superclasse."

\* Return.validate_self rejecting every return inside init, bare ones too
Return_validate_self_bare_in_init(node, parents) ==
    LET fns == {i \in 1..Len(parents) : parents[i].k \in {"Function", "Method"}} IN
    IF fns = {} THEN "Nao e possivel usar 'return' no nivel superior do codigo."
    ELSE LET i == CHOOSE c \in fns : \A d \in fns : c <= d IN
         IF parents[i].k = "Method" /\ parents[i].name = "init"
         THEN "Can't return a value from an initializer."
         ELSE ""

Return_validate_self(node, parents) ==
    LET fns == {i \in 1..Len(parents) : parents[i].k \in {"Function", "Method"}} IN
    IF fns = {} THEN "Nao e possivel usar 'return' no nivel superior do codigo."
    ELSE LET i == CHOOSE c \in fns : \A d \in fns : c <= d IN
         IF parents[i].k = "Method" /\ parents[i].name = "init" /\ node.value # NoneNode
         THEN "Can't return a value from an initializer."
         ELSE ""

\* VarDef.validate_self looking at the initializer node only, not inside it
VarDef_validate_self_no_subwalk(node, parents) ==
    IF node.name \in RESERVED_WORDS
    THEN "Nao e possivel usar a palavra reservada como nome de variavel."
    ELSE IF /\ Len(parents) > 0
            /\ parents[1].k = "Block"
            /\ node.initializer.k = "Var"
            /\ node.initializer.name = node.name
         THEN "Can't read local variable in its own initializer."
         ELSE ""

VarDef_validate_self(node, parents) ==
    IF node.name \in RESERVED_WORDS
    THEN "Nao e possivel usar a palavra reservada como nome de variavel."
    ELSE IF /\ Len(parents) > 0
            /\ parents[1].k = "Block"
            /\ node.initializer # NoneNode
            /\ ContainsVar(node.initializer, node.name)
         THEN "Can't read local variable in its own initializer."
         ELSE ""

Block_validate_self(node, parents) ==
    IF \E i, j \in 1..Len(node.stmts) :
          /\ i < j
          /\ node.stmts[i].k = "VarDef"
          /\ node.stmts[j].k = "VarDef"
          /\ node.stmts[i].name = node.stmts[j].name
    THEN "Variavel ja foi declarada neste bloco."
    ELSE ""

Function_validate_self(node, parents) ==
    LET params == NotNone(node.params)
        param_names == {params[i].name : i \in 1..Len(params)}
    IN  IF \E i \in 1..Len(params) : params[i].name \in RESERVED_WORDS
        THEN "Nao e possivel usar a palavra reservada como nome de parametro."
        ELSE IF \E i, j \in 1..Len(params) : i < j /\ params[i].name = params[j].name
        THEN "Nome de parametro duplicado na declaracao de funcao."
        ELSE IF \E i \in 1..Len(node.body.stmts) :
                   /\ node.body.stmts[i].k = "VarDef"
                   /\ node.body.stmts[i].name \in param_names
        THEN "Variavel oculta um parametro da funcao."
        ELSE ""

\* Method declares no validate_self: a method node is never rejected itself
Method_validate_self(node, parents) == ""

Class_validate_self(node, parents) ==
    IF node.superclass # "" /\ node.superclass = node.name
    THEN "A class can't inherit from itself."
    ELSE ""

validate_self(node, parents) ==
    CASE node.k = "Var" -> Var_validate_self(node, parents)
      [] node.k = "This" -> This_validate_self(node, parents)
      [] node.k = "Super" -> Super_validate_self(node, parents)
      [] node.k = "Return" -> Return_validate_self(node, parents)
      [] node.k = "VarDef" -> VarDef_validate_self(node, parents)
      [] node.k = "Block" -> Block_validate_self(node, parents)
      [] node.k = "Function" -> Function_validate_self(node, parents)
      [] node.k = "Method" -> Method_validate_self(node, parents)
      [] node.k = "Class" -> Class_validate_self(node, parents)
      [] OTHER -> ""

\* the validation walk: the node itself, then its children in order
Validate(node, parents) ==
    LET own == validate_self(node, parents) IN
    IF own # "" THEN own
    ELSE ValidateAll(Children(node), 1, <<node>> \o parents)

ValidateAll(nodes, i, parents) ==
    IF i > Len(nodes) THEN ""
    ELSE LET r == Validate(nodes[i], parents) IN
         IF r # "" THEN r ELSE ValidateAll(nodes, i + 1, parents)

(***************************************************************************)
(* Inputs: families of Lox programs, each built from a record of           *)
(* parameters drawn from bounded sets.                                     *)
(***************************************************************************)
MaxDepth == 3
MaxArgs == 2
MaxNest == 2
MaxIter == 3

ClassNames == <<"K1", "K2", "K3", "K4", "K5", "K6">>
ParamTable == <<"p1", "p2", "p3", "p4", "p5">>
FieldTable == <<"f1", "f2", "f3", "f4", "f5">>
SlotTable == <<"c1", "c2", "c3", "c4", "c5", "c6">>

Lit(n) == Literal(Num(n))
Text(s) == Literal(Str(s))
Params(n) == [i \in 1..n |-> Var(ParamTable[i])]

\* var hit = 0; fun side() { hit = hit + 1; return R; } var r = L op side();
\* print r;
LogicValues == {Nil, Bool(FALSE), Bool(TRUE), Num(0), Num(1), Str(""), Str("a")}

LogicInputs ==
    [fam : {"logic"}, op : {"and", "or"}, L : LogicValues, R : LogicValues]

LogicProgram(p) ==
    LET side == Call(Var("side"), << >>)
        expr == IF p.op = "and" THEN And(Literal(p.L), side) ELSE Or(Literal(p.L), side)
    IN  Program(<<
            VarDef("hit", Lit(0)),
            Function("side", << >>, Block(<<
                ExprStmt(Assign("hit", BinOp(Var("hit"), Lit(1), "add"))),
                Return(Literal(p.R)) >>)),
            VarDef("r", expr),
            PrintStmt(Var("r")) >>)

\* The constructor programs: a chain K1, K2 < K1, ..., Kd < K(d-1) in which
\* class initAt (0: none) declares init with n parameters (and, with decoy,
\* K1 another init above it); then var r = Kd(10, .., 10*m); and the reads
\* print r.f1; ..; print r.fn; print cnt;
BodyVariants == {"plain", "bareReturn", "typeMismatch", "superMiss", "nameError"}

CtorInputs ==
    {p \in [fam : {"ctor"}, d : 1..MaxDepth, initAt : 0..MaxDepth, n : 0..MaxArgs,
            m : 0..MaxArgs, bv : BodyVariants, decoy : BOOLEAN] :
        /\ p.initAt <= p.d
        /\ p.initAt = 0 => p.n = 0 /\ p.bv = "plain"
        /\ p.decoy => p.initAt >= 2}

SetThis(name, value) == ExprStmt(Setattr(This, name, value))

InitBody(p) ==
    LET prefix == << ExprStmt(Assign("cnt", BinOp(Var("cnt"), Lit(1), "add"))),
                     SetThis("self", This) >>
                  \o [j \in 1..p.n |-> SetThis(FieldTable[j], Var(ParamTable[j]))]
        late == << SetThis("late", Lit(1)) >>
    IN  CASE p.bv = "plain" -> prefix
          [] p.bv = "bareReturn" ->
                prefix \o << If(Literal(Bool(TRUE)), Block(<< Return(NoneNode) >>),
                                Block(<< >>)) >> \o late
          [] p.bv = "typeMismatch" ->
                prefix \o << SetThis("bad", BinOp(Lit(1), Text("x"), "add")) >> \o late
          [] p.bv = "superMiss" ->
                prefix \o << ExprStmt(Call(Super("nope"), << >>)) >> \o late
          [] p.bv = "nameError" ->
                prefix \o << PrintStmt(Var("undefined_name")) >> \o late

CtorClass(p, i) ==
    Class(ClassNames[i],
          IF i = p.initAt THEN << Method("init", Params(p.n), Block(InitBody(p))) >>
          ELSE IF p.decoy /\ i = 1
               THEN << Method("init", Params(p.n),
                              Block(<< SetThis("decoy", Literal(Bool(TRUE))) >>)) >>
               ELSE << >>,
          IF i = 1 THEN "" ELSE ClassNames[i - 1])

CtorProgram(p) ==
    Program(<< VarDef("cnt", Lit(0)) >>
            \o [i \in 1..p.d |-> CtorClass(p, i)]
            \o << VarDef("r", Call(Var(ClassNames[p.d]), [j \in 1..p.m |-> Lit(10 * j)])) >>
            \o [j \in 1..p.n |-> PrintStmt(Getattr(Var("r"), FieldTable[j]))]
            \o << PrintStmt(Var("cnt")) >>)

\* the index of the statement var r = Kd(..)
CtorCall(p) == p.d + 2

\* The super programs: a chain K1, .., Kd in which the classes of defs declare
\* m() { this.via = <level>; return this; } and class b declares
\* t() { return super.m(); } and g() { return super.m; }; then
\* var o = Krc(); var r = o.t(); var f = o.g(); print r.via;
SuperInputs ==
    {p \in [fam : {"super"}, d : 2..MaxDepth, b : 2..MaxDepth, rc : 2..MaxDepth,
            defs : SUBSET (1..MaxDepth)] :
        /\ p.b <= p.rc
        /\ p.rc <= p.d
        /\ p.defs \subseteq 1..p.d}

MBody(i) == Block(<< SetThis("via", Lit(i)), Return(This) >>)

SuperClass(p, i) ==
    Class(ClassNames[i],
          (IF i \in p.defs THEN << Method("m", << >>, MBody(i)) >> ELSE << >>)
          \o (IF i = p.b
              THEN << Method("t", << >>, Block(<< Return(Call(Super("m"), << >>)) >>)),
                      Method("g", << >>, Block(<< Return(Super("m")) >>)) >>
              ELSE << >>),
          IF i = 1 THEN "" ELSE ClassNames[i - 1])

SuperProgram(p) ==
    Program([i \in 1..p.d |-> SuperClass(p, i)]
            \o << VarDef("o", Call(Var(ClassNames[p.rc]), << >>)),
                  VarDef("r", Call(Getattr(Var("o"), "t"), << >>)),
                  VarDef("f", Call(Getattr(Var("o"), "g"), << >>)),
                  PrintStmt(Getattr(Var("r"), "via")) >>)

\* The return programs: g's body holds a return (with the value 7, or bare)
\* inside the nesting w of Block, If (then or else branch) and While
\* statements, outermost first:
\*   var n = 0; fun tick() { n = n + 1; print "it"; return n <= MaxNest + 1; }
\*   fun g() { print "g0"; <nesting>; print "dead"; }
\*   fun f() { print "f0"; var x = g(); print "f1"; print x; return 1; print "dead"; }
\*   var y = f(); print "top"; print y;
NestKinds == {"Block", "If", "Else", "While"}

RetInputs ==
    [fam : {"ret"}, hv : BOOLEAN,
     w : UNION {[1..k -> NestKinds] : k \in 0..MaxNest}]

Dead == PrintStmt(Text("dead"))

RECURSIVE Nested(_, _, _)
Nested(w, i, inner) ==
    IF i > Len(w) THEN inner
    ELSE LET rest == Nested(w, i + 1, inner) IN
         CASE w[i] = "Block" -> Block(<< PrintStmt(Text("blk")), rest, Dead >>)
           [] w[i] = "If" -> If(Literal(Bool(TRUE)), rest, Dead)
           [] w[i] = "Else" -> If(Literal(Nil), Dead, rest)
           [] w[i] = "While" -> While(Call(Var("tick"), << >>), rest)

RetProgram(p) ==
    Program(<<
        VarDef("n", Lit(0)),
        Function("tick", << >>, Block(<<
            ExprStmt(Assign("n", BinOp(Var("n"), Lit(1), "add"))),
            PrintStmt(Text("it")),
            Return(BinOp(Var("n"), Lit(MaxNest + 1), "le")) >>)),
        Function("g", << >>, Block(<<
            PrintStmt(Text("g0")),
            Nested(p.w, 1, Return(IF p.hv THEN Lit(7) ELSE NoneNode)),
            Dead >>)),
        Function("f", << >>, Block(<<
            PrintStmt(Text("f0")),
            VarDef("x", Call(Var("g"), << >>)),
            PrintStmt(Text("f1")),
            PrintStmt(Var("x")),
            Return(Lit(1)),
            Dead >>)),
        VarDef("y", Call(Var("f"), << >>)),
        PrintStmt(Text("top")),
        PrintStmt(Var("y")) >>)

\* The closure programs: N iterations of a loop whose body block declares a
\* variable and a function reading it (with bump, also incrementing it):
\*   var c1; ..; var cN; var i = 1;
\*   while (i <= N) { var v = i * 10; fun get() { [v = v + 1;] return v; }
\*                    if (i == 1) c1 = get; ..; if (i == N) cN = get; i = i + 1; }
\*   print c1(); ..; print cN(); print c1();
ClosureInputs == [fam : {"closure"}, N : 1..MaxIter, bump : BOOLEAN]

ClosureLoopBody(p) ==
    Block(<< VarDef("v", BinOp(Var("i"), Lit(10), "mul")),
             Function("get", << >>, Block(
                 (IF p.bump
                  THEN << ExprStmt(Assign("v", BinOp(Var("v"), Lit(1), "add"))) >>
                  ELSE << >>)
                 \o << Return(Var("v")) >>)) >>
          \o [k \in 1..p.N |->
                If(BinOp(Var("i"), Lit(k), "eq"),
                   ExprStmt(Assign(SlotTable[k], Var("get"))), Block(<< >>))]
          \o << ExprStmt(Assign("i", BinOp(Var("i"), Lit(1), "add"))) >>)

ClosureProgram(p) ==
    Program([k \in 1..p.N |-> VarDef(SlotTable[k], Literal(Nil))]
            \o << VarDef("i", Lit(1)),
                  While(BinOp(Var("i"), Lit(p.N), "le"), ClosureLoopBody(p)) >>
            \o [k \in 1..p.N |-> PrintStmt(Call(Var(SlotTable[k]), << >>))]
            \o << PrintStmt(Call(Var(SlotTable[1]), << >>)) >>)

\* The self-reference programs: var y = 2; [var x = 1;] and then var x = <e>;
\* at the top level (depth 0) or directly inside the innermost of depth nested
\* blocks (the outermost the body of a function h when inFun), where <e> is
\* x, x + 1, y or 1.
SelfRefInputs ==
    {p \in [fam : {"selfref"}, outer : BOOLEAN, depth : 0..MaxNest, inFun : BOOLEAN,
            init : {"self", "selfExpr", "other", "lit"}] :
        p.inFun => p.depth >= 1}

SelfRefInitializer(p) ==
    CASE p.init = "self" -> Var("x")
      [] p.init = "selfExpr" -> BinOp(Var("x"), Lit(1), "add")
      [] p.init = "other" -> Var("y")
      [] p.init = "lit" -> Lit(1)

RECURSIVE Blocks(_, _)
Blocks(depth, inner) ==
    IF depth = 0 THEN inner ELSE Block(<< Blocks(depth - 1, inner) >>)

SelfRefProgram(p) ==
    LET decl == VarDef("x", SelfRefInitializer(p)) IN
    Program(<< VarDef("y", Lit(2)) >>
            \o (IF p.outer THEN << VarDef("x", Lit(1)) >> ELSE << >>)
            \o (IF p.inFun
                THEN << Function("h", << >>, Block(<< Blocks(p.depth - 1, decl) >>)),
                        ExprStmt(Call(Var("h"), << >>)) >>
                ELSE << Blocks(p.depth, decl) >>))

\* The parameter programs: fun h(ps) { body } or class K { h(ps) { body } },
\* where body declares var <local> = 1; directly or inside a nested block.
NameSeqs == UNION {[1..k -> {"a", "b"}] : k \in 0..MaxArgs}

ParamsInputs ==
    {p \in [fam : {"params"}, kind : {"function", "method"}, ps : NameSeqs,
            local : {"", "a", "b", "c"}, direct : BOOLEAN] :
        p.local = "" => p.direct}

ParamsProgram(p) ==
    LET decl == VarDef(p.local, Lit(1))
        body == Block(IF p.local = "" THEN << >>
                      ELSE IF p.direct THEN << decl >>
                      ELSE << Block(<< decl >>) >>)
        params == [i \in 1..Len(p.ps) |-> Var(p.ps[i])]
    IN  Program(<< IF p.kind = "function" THEN Function("h", params, body)
                   ELSE Class("K", << Method("h", params, body) >>, "") >>)

\* The return-placement programs: a return (with the value 1, or bare) inside
\* the nesting path, outermost first, of function declarations (named h or
\* init), classes with one method (named init or m), blocks, ifs and whiles.
PlaceKinds ==
    {"Function", "FunctionInit", "MethodInit", "Method", "Block", "If", "While"}

RetSemInputs ==
    [fam : {"retsem"}, hv : BOOLEAN,
     path : UNION {[1..k -> PlaceKinds] : k \in 0..MaxNest}]

RECURSIVE Placed(_, _, _)
Placed(path, i, inner) ==
    IF i > Len(path) THEN inner
    ELSE LET rest == Placed(path, i + 1, inner) IN
         CASE path[i] = "Function" -> Function("h", << >>, Block(<< rest >>))
           [] path[i] = "FunctionInit" -> Function("init", << >>, Block(<< rest >>))
           [] path[i] = "MethodInit" ->
                 Class("K", << Method("init", << >>, Block(<< rest >>)) >>, "")
           [] path[i] = "Method" ->
                 Class("K", << Method("m", << >>, Block(<< rest >>)) >>, "")
           [] path[i] = "Block" -> Block(<< rest >>)
           [] path[i] = "If" -> If(Literal(Bool(TRUE)), rest, Block(<< >>))
           [] path[i] = "While" -> While(Literal(Bool(FALSE)), rest)

RetSemProgram(p) ==
    Program(<< Placed(p.path, 1, Return(IF p.hv THEN Lit(1) ELSE NoneNode)) >>)

\* The declared-name programs: one declaration whose declared name is a
\* reserved word or the plain name zz:  var <name> = 1;  fun h(<name>) { }
\* class K { m(<name>) { } }   fun <name>() { }   class <name> { }
DeclKinds == {"var", "param", "methodParam", "fun", "class"}

ReservedInputs ==
    [fam : {"reserved"}, kind : DeclKinds, name : RESERVED_WORDS \cup {"zz"}]

ReservedProgram(p) ==
    Program(<<
        CASE p.kind = "var" -> VarDef(p.name, Lit(1))
          [] p.kind = "param" -> Function("h", << Var(p.name) >>, Block(<< >>))
          [] p.kind = "methodParam" ->
                Class("K", << Method("m", << Var(p.name) >>, Block(<< >>)) >>, "")
          [] p.kind = "fun" -> Function(p.name, << >>, Block(<< >>))
          [] p.kind = "class" -> Class(p.name, << >>, "") >>)

\* The attribute-write programs:
\*   class K { m() { return 1; } q() { return 3; } }  fun h() { return 2; }
\*   var o = K(); var o2 = K(); var b = o.m;
\*   var r1 = (<target>.<name1> = <value1>); ... one declaration per write
\*   print o; print o.q();
\* with the target one of K (class), h (closure), b (bound method), o (instance)
MaxWrites == 2
WriteNames == {"x", "m", "klass", "init"}
ResultTable == <<"r1", "r2", "r3", "r4">>
WriteSeqs == UNION {[1..n -> WriteNames] : n \in 1..MaxWrites}

SetattrInputs ==
    [fam : {"setattr"}, target : {"class", "fn", "bound", "inst"},
     names : WriteSeqs, text : BOOLEAN]

WriteTarget(p) ==
    CASE p.target = "class" -> Var("K")
      [] p.target = "fn" -> Var("h")
      [] p.target = "bound" -> Var("b")
      [] p.target = "inst" -> Var("o")

\* the value stored by the i-th write
WriteValue(p, i) == IF p.text THEN Str(ResultTable[i]) ELSE Num(10 + i)

SetattrSetup ==
    << Class("K", << Method("m", << >>, Block(<< Return(Lit(1)) >>)),
                     Method("q", << >>, Block(<< Return(Lit(3)) >>)) >>, ""),
       Function("h", << >>, Block(<< Return(Lit(2)) >>)),
       VarDef("o", Call(Var("K"), << >>)),
       VarDef("o2", Call(Var("K"), << >>)),
       VarDef("b", Getattr(Var("o"), "m")) >>

SetattrProgram(p) ==
    Program(SetattrSetup
            \o [i \in 1..Len(p.names) |->
                   VarDef(ResultTable[i],
                          Setattr(WriteTarget(p), p.names[i], Literal(WriteValue(p, i))))]
            \o << PrintStmt(Var("o")),
                  PrintStmt(Call(Getattr(Var("o"), "q"), << >>)) >>)

\* The attribute-read programs: a chain K1 .. Kd (Ki+1 < Ki) in which the
\* levels in defs declare  <name>() { print i; },  then
\*   var o = Kd();  [o.<name> = 99;]  var r = o.<name>;  [r();]
\* (the final call only when no field was written)
ReadNames == {"m", "klass", "init"}

GetattrInputs ==
    {p \in [fam : {"getattr"}, d : 1..MaxDepth, defs : SUBSET (1..MaxDepth),
            name : ReadNames, written : BOOLEAN] : p.defs \subseteq 1..p.d}

ReadBody(i) == Block(<< PrintStmt(Lit(i)) >>)

GetattrClass(p, i) ==
    Class(ClassNames[i],
          IF i \in p.defs THEN << Method(p.name, << >>, ReadBody(i)) >> ELSE << >>,
          IF i = 1 THEN "" ELSE ClassNames[i - 1])

GetattrProgram(p) ==
    Program([i \in 1..p.d |-> GetattrClass(p, i)]
            \o << VarDef("o", Call(Var(ClassNames[p.d]), << >>)) >>
            \o (IF p.written
                THEN << ExprStmt(Setattr(Var("o"), p.name, Lit(99))) >> ELSE << >>)
            \o << VarDef("r", Getattr(Var("o"), p.name)) >>
            \o (IF p.written THEN << >> ELSE << ExprStmt(Call(Var("r"), << >>)) >>))

\* the position of the statement var r = o.<name>;
ReadAt(p) == p.d + (IF p.written THEN 3 ELSE 2)

\* The instance-equality programs:
\*   class K { init(a) { this.f = a; } }  class J { init(a) { this.f = a; } }
\*   var o1 = K(x);  var o2 = <K or J>(y);  var o3 = o1;
\*   var same = o1 == o3;  var diff = o1 == o2;  var ndiff = o1 != o2;
FieldValues == {1, 2}

EqInstInputs ==
    [fam : {"eqinst"}, x : FieldValues, y : FieldValues, second : {"K", "J"}]

EqInstClass(name) ==
    Class(name, << Method("init", << Var("a") >>,
                          Block(<< SetThis("f", Var("a")) >>)) >>, "")

EqInstProgram(p) ==
    Program(<< EqInstClass("K"), EqInstClass("J"),
               VarDef("o1", Call(Var("K"), << Lit(p.x) >>)),
               VarDef("o2", Call(Var(p.second), << Lit(p.y) >>)),
               VarDef("o3", Var("o1")),
               VarDef("same", BinOp(Var("o1"), Var("o3"), "eq")),
               VarDef("diff", BinOp(Var("o1"), Var("o2"), "eq")),
               VarDef("ndiff", BinOp(Var("o1"), Var("o2"), "ne")) >>)

ProgramOf(p) ==
    CASE p.fam = "logic" -> LogicProgram(p)
      [] p.fam = "ctor" -> CtorProgram(p)
      [] p.fam = "super" -> SuperProgram(p)
      [] p.fam = "ret" -> RetProgram(p)
      [] p.fam = "closure" -> ClosureProgram(p)
      [] p.fam = "selfref" -> SelfRefProgram(p)
      [] p.fam = "params" -> ParamsProgram(p)
      [] p.fam = "retsem" -> RetSemProgram(p)
      [] p.fam = "reserved" -> ReservedProgram(p)
      [] p.fam = "setattr" -> SetattrProgram(p)
      [] p.fam = "getattr" -> GetattrProgram(p)
      [] p.fam = "eqinst" -> EqInstProgram(p)

(***************************************************************************)
(* The state machine: a program is analysed, and when the analysis accepts *)
(* it Program.eval runs its statements in order in the root environment.   *)
(***************************************************************************)
Ast == ProgramOf(prog)

NoError == [sig |-> "", msg |-> ""]

Inputs(fam) ==
    CASE fam = "logic" -> LogicInputs
      [] fam = "ctor" -> CtorInputs
      [] fam = "super" -> SuperInputs
      [] fam = "ret" -> RetInputs
      [] fam = "closure" -> ClosureInputs
      [] fam = "selfref" -> SelfRefInputs
      [] fam = "params" -> ParamsInputs
      [] fam = "retsem" -> RetSemInputs
      [] fam = "reserved" -> ReservedInputs
      [] fam = "setattr" -> SetattrInputs
      [] fam = "getattr" -> GetattrInputs
      [] fam = "eqinst" -> EqInstInputs

Families ==
    {"logic", "ctor", "super", "ret", "closure", "selfref", "params", "retsem",
     "reserved", "setattr", "getattr", "eqinst"}

Init ==
    /\ \E fam \in Families : prog \in Inputs(fam)
    /\ phase = "parsed"
    /\ pc = 1
    /\ st = InitState
    /\ err = NoError

\* the semantic analysis of the whole program, before any evaluation
Analyze ==
    /\ phase = "parsed"
    /\ LET r == Validate(Ast, << >>) IN
       /\ phase' = IF r # "" THEN "rejected"
                   ELSE IF Len(Ast.stmts) = 0 THEN "done" ELSE "running"
       /\ err' = IF r # "" THEN [sig |-> "SemanticError", msg |-> r] ELSE NoError
    /\ UNCHANGED <<prog, pc, st>>

\* one iteration of the loop of Program.eval
Step ==
    /\ phase = "running"
    /\ LET r == Eval(Ast.stmts[pc], RootCtx, st) IN
       /\ st' = r.st
       /\ pc' = IF r.sig = "ok" THEN pc + 1 ELSE pc
       /\ phase' = IF r.sig # "ok" THEN "failed"
                   ELSE IF pc = Len(Ast.stmts) THEN "done" ELSE "running"
       /\ err' = IF r.sig # "ok" THEN [sig |-> r.sig, msg |-> r.msg] ELSE NoError
    /\ UNCHANGED prog

Next == Analyze \/ Step

Spec == Init /\ [][Next]_vars

\* the value of a global variable (Nil when unbound), and whether it is bound
Bound(name) == name \in DOMAIN st.envs[RootCtx].vars
Global(name) == st.envs[RootCtx].vars[name]

(***************************************************************************)
(* Claims.                                                                 *)
(***************************************************************************)
Ran(n) == phase \in {"running", "done"} /\ pc > n

\* C7: 'and' returns a nil or false left value itself and 'or' returns any
\* other left value itself (0 and "" included), in both cases without
\* evaluating the right operand; otherwise the right operand is evaluated
\* exactly once and its value is the result.
C7_ShortCircuit ==
    prog.fam = "logic" =>
        /\ phase # "failed"
        /\ Ran(3) =>
              LET falsy == prog.L \in {Nil, Bool(FALSE)}
                  decided == IF prog.op = "and" THEN falsy ELSE ~falsy
              IN  IF decided
                  THEN Global("r") = prog.L /\ Global("hit") = Num(0)
                  ELSE Global("r") = prog.R /\ Global("hit") = Num(1)

C7_Witness ==
    /\ prog.fam = "logic"
    /\ prog.op = "or"
    /\ prog.L = Num(0)
    /\ prog.R = Str("a")
    /\ phase = "done"
    /\ Global("r") = Num(0)
    /\ st.out = <<"0">>

\* the instance object a global variable refers to
IsInstance(v) == v.t = "inst" /\ st.objs[v.id].k = "inst"
Fields(v) == st.objs[v.id].dict

\* C1 (as claimed): a class whose chain defines init, called with matching
\* arguments, with an init body that raises a runtime signal (TypeMismatch
\* from 1 + "x", UndefinedProperty from super.nope): the signal propagates out
\* of the class call and the call returns no instance.
C1_InitSignalPropagates ==
    (/\ prog.fam = "ctor"
     /\ prog.initAt >= 1
     /\ prog.n = prog.m
     /\ prog.bv \in {"typeMismatch", "superMiss"}) =>
        /\ ~Ran(CtorCall(prog))
        /\ ~Bound("r")
        /\ phase = "failed" => err.sig = "LoxError"

\* C2: a class whose chain defines init with n parameters, called with n
\* arguments: init runs exactly once with this bound to the new instance, the
\* call's result is that instance (also after a bare return in init), and
\* every field init wrote is readable on it.
C2_InitRunsOnceOnInstance ==
    (/\ prog.fam = "ctor"
     /\ prog.initAt >= 1
     /\ prog.n = prog.m
     /\ prog.bv \in {"plain", "bareReturn"}) =>
        /\ phase \notin {"failed", "rejected"}
        /\ Ran(CtorCall(prog)) =>
              /\ IsInstance(Global("r"))
              /\ Fields(Global("r"))["klass"] = Global(ClassNames[prog.d])
              /\ Global("cnt") = Num(1)
              /\ DOMAIN Fields(Global("r")) =
                    {"klass", "self"} \cup {FieldTable[j] : j \in 1..prog.n}
              /\ Fields(Global("r"))["self"] = Global("r")
              /\ \A j \in 1..prog.n :
                    /\ Fields(Global("r"))[FieldTable[j]] = Num(10 * j)
                    /\ Ran(CtorCall(prog) + j) => st.out[j] = ToString(10 * j)

C2_Witness ==
    /\ prog.fam = "ctor"
    /\ prog.d = 3
    /\ prog.initAt = 2
    /\ prog.decoy
    /\ prog.n = 2
    /\ prog.m = 2
    /\ prog.bv = "bareReturn"
    /\ phase = "done"
    /\ IsInstance(Global("r"))
    /\ st.out = <<"10", "20", "1">>

\* C3: a class with no init in its chain: called with one or more arguments
\* the call fails with the arity error and yields no instance; called with
\* none it returns a new instance with no fields.
C3_NoInit ==
    (prog.fam = "ctor" /\ prog.initAt = 0) =>
        /\ phase # "rejected"
        /\ prog.m >= 1 =>
              /\ ~Ran(CtorCall(prog))
              /\ ~Bound("r")
              /\ phase = "failed" =>
                    /\ pc = CtorCall(prog)
                    /\ err = [sig |-> "TypeError", msg |-> "Expected 0 arguments"]
        /\ prog.m = 0 =>
              /\ phase # "failed"
              /\ Ran(CtorCall(prog)) =>
                    /\ IsInstance(Global("r"))
                    /\ Fields(Global("r")) = ("klass" :> Global(ClassNames[prog.d]))

C3_Witness ==
    /\ prog.fam = "ctor"
    /\ prog.initAt = 0
    /\ prog.d = 2
    /\ prog.m = 2
    /\ phase = "failed"
    /\ err.sig = "TypeError"
    /\ ~Bound("r")

\* the nearest class above class b of the chain that declares m (0: none)
SuperTarget(p) ==
    LET anc == {j \in p.defs : j < p.b} IN
    IF anc = {} THEN 0 ELSE CHOOSE j \in anc : \A i \in anc : i <= j

\* C4: super.m inside a method declared in class b yields the m of the
\* nearest ancestor of b that declares one, bound to the current this, never
\* b's own m, whatever class from b down the receiver is an instance of.
C4_SuperIsStatic ==
    (prog.fam = "super" /\ SuperTarget(prog) # 0) =>
        /\ phase \notin {"failed", "rejected"}
        /\ Ran(prog.d + 2) =>
              /\ IsInstance(Global("o"))
              /\ Fields(Global("o"))["klass"] = Global(ClassNames[prog.rc])
              /\ Global("r") = Global("o")
              /\ Fields(Global("o"))["via"] = Num(SuperTarget(prog))
        /\ Ran(prog.d + 3) =>
              /\ Global("f").t = "fn"
              /\ st.objs[Global("f").id].body = MBody(SuperTarget(prog))
              /\ CtxGet(st, st.objs[Global("f").id].ctx, "this") = Global("o")

C4_Witness ==
    /\ prog.fam = "super"
    /\ prog.d = 3
    /\ prog.b = 2
    /\ prog.rc = 3
    /\ prog.defs = {1, 2, 3}
    /\ phase = "done"
    /\ Fields(Global("o"))["via"] = Num(1)
    /\ st.out = <<"1">>

\* what the statements around the return print before it executes
RECURSIVE Markers(_, _)
Markers(w, i) ==
    IF i > Len(w) THEN << >>
    ELSE (CASE w[i] = "Block" -> <<"blk">>
            [] w[i] = "While" -> <<"it">>
            [] OTHER -> << >>) \o Markers(w, i + 1)

RetOutput(p) ==
    <<"f0", "g0">> \o Markers(p.w, 1) \o <<"f1", IF p.hv THEN "7" ELSE "nil">>

\* C5: a return inside any nesting of Block, If and While statements of a
\* function body ends the innermost call with the returned value (nil when
\* bare): nothing later in that body and no further iteration runs, the
\* caller continues after the call, and the transfer ends no enclosing call
\* and never leaves the top-level evaluation.
C5_ReturnEndsInnermostCall ==
    /\ err.sig # "LoxReturn"
    /\ prog.fam = "ret" =>
          /\ phase \notin {"failed", "rejected"}
          /\ Ran(5) =>
                /\ Global("y") = Num(1)
                /\ Len(st.out) >= Len(RetOutput(prog))
                /\ SubSeq(st.out, 1, Len(RetOutput(prog))) = RetOutput(prog)
          /\ phase = "done" => st.out = RetOutput(prog) \o <<"top", "1">>

C5_Witness ==
    /\ prog.fam = "ret"
    /\ prog.w = <<"While", "Block">>
    /\ ~prog.hv
    /\ phase = "done"
    /\ st.out = <<"f0", "g0", "it", "blk", "f1", "nil", "top", "1">>

\* the environment captured by the closure stored in slot k
Captured(k) == st.objs[Global(SlotTable[k]).id].ctx

\* C6: each execution of the loop's body block creates a fresh environment
\* and the function declared there captures it: called after the loop, the
\* closure of iteration k reads (and updates) the variable of iteration k.
C6_ClosuresCaptureOwnEnvironment ==
    prog.fam = "closure" =>
        /\ phase \notin {"failed", "rejected"}
        /\ Ran(prog.N + 2) =>
              /\ \A k \in 1..prog.N : Global(SlotTable[k]).t = "fn"
              /\ \A j, k \in 1..prog.N : j # k => Captured(j) # Captured(k)
              /\ \A k \in 1..prog.N :
                    Ran(prog.N + 2 + k) =>
                        st.out[k] = ToString(10 * k + (IF prog.bump THEN 1 ELSE 0))
        /\ phase = "done" =>
              st.out[prog.N + 1] = ToString(10 + (IF prog.bump THEN 2 ELSE 0))

C6_Witness ==
    /\ prog.fam = "closure"
    /\ prog.N = 3
    /\ ~prog.bump
    /\ phase = "done"
    /\ st.out = <<"10", "20", "30", "10">>

Analyzed == phase # "parsed"
Rejected == phase = "rejected"

SelfReads(p) == p.init \in {"self", "selfExpr"}

\* C8 (as claimed): { var x = x; } is rejected, and var x = 1; { var x = x; }
\* is accepted.
C8_OuterBindingAccepted ==
    (/\ prog.fam = "selfref"
     /\ prog.depth = 1
     /\ ~prog.inFun
     /\ prog.init = "self"
     /\ Analyzed) => (Rejected <=> ~prog.outer)

\* C8 (amended): a variable declaration directly inside a block whose
\* initializer reads the declared name is rejected, whether or not an outer
\* binding of that name exists; no other declaration of these programs is.
C8_SelfReferenceRejected ==
    (prog.fam = "selfref" /\ Analyzed) =>
        /\ Rejected <=> (prog.depth >= 1 /\ SelfReads(prog))
        /\ Rejected =>
              err.msg = "Can't read local variable in its own initializer."

C8_Witness ==
    /\ prog.fam = "selfref"
    /\ prog.outer
    /\ prog.depth = 1
    /\ ~prog.inFun
    /\ prog.init = "self"
    /\ Rejected

Repeats(ps) == \E i, j \in 1..Len(ps) : i < j /\ ps[i] = ps[j]
Shadows(p) == p.direct /\ \E i \in 1..Len(p.ps) : p.ps[i] = p.local

\* C9 (as claimed): every function declaration and every class method with a
\* repeated parameter name, or whose body block directly declares a local
\* variable named like one of its parameters, is rejected.
C9_ParametersChecked ==
    (prog.fam = "params" /\ Analyzed /\ (Repeats(prog.ps) \/ Shadows(prog))) =>
        Rejected

\* the nearest function or method around the return of a placement program
\* (0: none)
NearestFn(p) ==
    LET fns == {i \in 1..Len(p.path) :
                   p.path[i] \in {"Function", "FunctionInit", "MethodInit", "Method"}}
    IN  IF fns = {} THEN 0 ELSE CHOOSE i \in fns : \A j \in fns : j <= i

\* C10: a return with no enclosing function or method is rejected, a return
\* with a value whose nearest enclosing function or method is a class method
\* named init is rejected, and every other return is accepted.
C10_ReturnPlacement ==
    (prog.fam = "retsem" /\ Analyzed) =>
        /\ NearestFn(prog) = 0 =>
              /\ Rejected
              /\ err.msg = "Nao e possivel usar 'return' no nivel superior do codigo."
        /\ (/\ NearestFn(prog) # 0
            /\ prog.path[NearestFn(prog)] = "MethodInit"
            /\ prog.hv) =>
              /\ Rejected
              /\ err.msg = "Can't return a value from an initializer."
        /\ (/\ NearestFn(prog) # 0
            /\ ~(prog.path[NearestFn(prog)] = "MethodInit" /\ prog.hv)) => ~Rejected

C10_Witness ==
    /\ prog.fam = "retsem"
    /\ prog.path = <<"MethodInit", "While">>
    /\ ~prog.hv
    /\ phase = "done"

\* C11 (as claimed): a program that declares a reserved word as the name of
\* a variable, of a function or method parameter, of a function or of a class
\* is rejected.
C11_ReservedNamesRejected ==
    (prog.fam = "reserved" /\ prog.name \in RESERVED_WORDS /\ Analyzed) => Rejected

\* the step about to run is the i-th attribute write of a setattr program
AtWrite(i) ==
    /\ prog.fam = "setattr" /\ phase = "running"
    /\ i \in 1..Len(prog.names) /\ pc = Len(SetattrSetup) + i

\* C12: an attribute write on a class or closure value (a bound method
\* included) fails with the "only instances have fields" error and changes no
\* object and no environment; an attribute write on an instance succeeds,
\* stores the value under the field name in that instance's fields, changes no
\* other object, and evaluates to the stored value.
C12_AttributeWrite ==
    [][\A i \in 1..MaxWrites : AtWrite(i) =>
          IF prog.target = "inst"
          THEN LET o == Global("o").id IN
               /\ phase' # "failed"
               /\ DOMAIN st'.objs = DOMAIN st.objs
               /\ st'.objs[o].dict =
                      (prog.names[i] :> WriteValue(prog, i)) @@ st.objs[o].dict
               /\ \A j \in DOMAIN st.objs \ {o} : st'.objs[j] = st.objs[j]
               /\ st'.envs[RootCtx].vars[ResultTable[i]] = WriteValue(prog, i)
          ELSE /\ phase' = "failed"
               /\ err' = [sig |-> "LoxError",
                          msg |-> "Apenas instancias podem ter campos."]
               /\ st'.objs = st.objs
               /\ st'.envs = st.envs]_vars

C12_Witness ==
    /\ prog.fam = "setattr" /\ prog.target = "inst" /\ prog.names = <<"m", "x">>
    /\ phase = "running" /\ pc = Len(SetattrSetup) + 3
    /\ Fields(Global("o"))["m"] = WriteValue(prog, 1)
    /\ Fields(Global("o"))["x"] = Global("r2")
    /\ "x" \notin DOMAIN Fields(Global("o2"))

\* C14 (as claimed): after any sequence of attribute writes on an instance,
\* with any field names, the instance still refers to the class it was
\* constructed from, so printing it and calling its method q do not fail.
C14_ClassReferenceKept ==
    (prog.fam = "setattr" /\ prog.target = "inst" /\ Bound("o")) =>
        /\ Fields(Global("o"))["klass"] = Global("K")
        /\ phase # "failed"

\* the nearest level of the chain, seen from the instance's class, that
\* declares the method
Nearest(p) == CHOOSE i \in p.defs : \A j \in p.defs : j <= i

\* r is a closure with the body of level i, bound to the instance o, and is
\* not the closure stored in a method table
BoundMethodOf(r, i, o) ==
    /\ r.t = "fn"
    /\ st.objs[r.id].body = ReadBody(i)
    /\ st.envs[st.objs[r.id].ctx].vars = ("this" :> o)
    /\ \A c \in DOMAIN st.objs :
          st.objs[c].k = "class" =>
              \A n \in DOMAIN st.objs[c].methods : st.objs[c].methods[n] # r.id

\* C13 (as claimed): once the read o.n has been evaluated, its value is the
\* written field when one was written (even if the chain declares a method
\* n); otherwise it is the nearest method n of the chain as a new closure
\* bound to o; and when there is neither, the read fails with the
\* undefined-property error.
C13_AttributeRead ==
    (/\ prog.fam = "getattr"
     /\ \/ pc > ReadAt(prog)
        \/ phase = "failed" /\ pc = ReadAt(prog)) =>
        IF prog.written
        THEN pc > ReadAt(prog) /\ Global("r") = Num(99)
        ELSE IF prog.defs # {}
             THEN pc > ReadAt(prog)
                  /\ BoundMethodOf(Global("r"), Nearest(prog), Global("o"))
             ELSE phase = "failed" /\ err.sig = "AttributeError"

\* C15 (as claimed): == on two instance values is true only for one and the
\* same instance: o1 == o3 (an alias of o1) is true, and o1 == o2, with o2
\* built by a separate constructor call, is false and o1 != o2 is true,
\* whether the two hold equal or different fields.
C15_InstanceIdentity ==
    (prog.fam = "eqinst" /\ phase = "done") =>
        /\ Global("o1") # Global("o2")
        /\ Global("same") = Bool(TRUE)
        /\ Global("diff") = Bool(FALSE)
        /\ Global("ndiff") = Bool(TRUE)

====
